---------------------------- MODULE Spec2Model ----------------------------
(***************************************************************************)
(* Model of the server browser of play-css.com: the ServerBrowserClient    *)
(* component (its state cells, its refresh timer and fetch, its filter and *)
(* sort handlers, and the memoised derived list and statistics).           *)
(*                                                                         *)
(* Strings are sequences of UTF-16 code units (integers), so that          *)
(* stripSpecialChars, toLowerCase, includes and localeCompare are computed *)
(* on characters as the JavaScript code computes them.                     *)
(***************************************************************************)
EXTENDS Integers, Sequences, FiniteSets, TLC

(***************************************************************************)
(* Bounds of the model.                                                    *)
(***************************************************************************)
\* Longest server list a fetch (or the initial page load) delivers.
MaxServers == 3
\* Most refresh fetches outstanding at the same time.
MaxInFlight == 2

(***************************************************************************)
(* Strings.                                                                *)
(***************************************************************************)
\* "" : the empty string
Empty == << >>

\* The allow-set of the regular expression of stripSpecialChars: printable
\* ASCII 0x20-0x7E, Cyrillic U+0400-U+04FF, CJK U+4E00-U+9FFF, Hiragana
\* U+3040-U+309F, Katakana U+30A0-U+30FF, Hangul U+AC00-U+D7AF.
AllowedChar(c) ==
    \/ c \in 32..126
    \/ c \in 1024..1279
    \/ c \in 19968..40959
    \/ c \in 12352..12447
    \/ c \in 12448..12543
    \/ c \in 44032..55215

\* str.replace(/[^...]/, '') without the g flag: only the first code unit
\* outside the allow-set is dropped.
RECURSIVE stripFirstSpecialChar(_)
stripFirstSpecialChar(str) ==
    IF str = << >> THEN << >>
    ELSE IF ~AllowedChar(Head(str)) THEN Tail(str)
    ELSE <<Head(str)>> \o stripFirstSpecialChar(Tail(str))

\* str.replace(/[^...]/g, ''): every code unit outside the allow-set is dropped.
stripSpecialChars(str) == SelectSeq(str, AllowedChar)

\* One code unit of String.prototype.toLowerCase: A-Z, and the Cyrillic capitals
\* U+0400-U+042F, map to their small letters; every other unit of the modelled
\* alphabet is unchanged.
LowerChar(c) ==
    IF c \in 65..90 THEN c + 32
    ELSE IF c \in 1040..1071 THEN c + 32
    ELSE IF c \in 1024..1039 THEN c + 80
    ELSE c

toLowerCase(str) == [i \in 1..Len(str) |-> LowerChar(str[i])]

\* String.prototype.includes: sub occurs in str as a contiguous run.
includes(str, sub) ==
    \E i \in 1..(Len(str) - Len(sub) + 1) :
        SubSeq(str, i, i + Len(sub) - 1) = sub

\* JavaScript truthiness of a string: the empty string is falsy.
Truthy(str) == str # Empty

(***************************************************************************)
(* String.prototype.localeCompare (ICU root collation, default strength),  *)
(* on the modelled alphabet: control characters are ignorable; the primary *)
(* order is white space, punctuation and symbols, digits, Latin letters,   *)
(* then the other scripts; letters that differ only in case have the same  *)
(* primary weight, and the small letter comes first at the last level.     *)
(***************************************************************************)
Ignorable(c) == c \in 0..8 \/ c \in 14..31 \/ c = 127

PrimaryWeight(c) ==
    IF c \in 97..122 THEN 1000 + (c - 97)
    ELSE IF c \in 65..90 THEN 1000 + (c - 65)
    ELSE IF c \in 48..57 THEN 900 + (c - 48)
    ELSE IF c < 128 THEN c
    ELSE 2000 + LowerChar(c)

\* 0 for a small (or caseless) character, 1 for a capital.
CaseWeight(c) == IF LowerChar(c) # c THEN 1 ELSE 0

CollationElements(str) == SelectSeq(str, LAMBDA c : ~Ignorable(c))

\* Lexicographic comparison of two sequences of weights: -1, 0 or 1.
RECURSIVE CompareWeights(_, _)
CompareWeights(u, v) ==
    IF u = << >> /\ v = << >> THEN 0
    ELSE IF u = << >> THEN -1
    ELSE IF v = << >> THEN 1
    ELSE IF Head(u) < Head(v) THEN -1
    ELSE IF Head(u) > Head(v) THEN 1
    ELSE CompareWeights(Tail(u), Tail(v))

localeCompare(a, b) ==
    LET ea == CollationElements(a)
        eb == CollationElements(b)
        primary == CompareWeights([i \in 1..Len(ea) |-> PrimaryWeight(ea[i])],
                                  [i \in 1..Len(eb) |-> PrimaryWeight(eb[i])])
    IN  IF primary # 0 THEN primary
        ELSE CompareWeights([i \in 1..Len(ea) |-> CaseWeight(ea[i])],
                            [i \in 1..Len(eb) |-> CaseWeight(eb[i])])

(***************************************************************************)
(* Server records.  country is optional in the JSON the upstream service   *)
(* sends: a missing country is [defined |-> FALSE].                        *)
(***************************************************************************)
Str(country) == [defined |-> TRUE, str |-> country]
Undefined == [defined |-> FALSE, str |-> Empty]

\* "Alpha", map "Dust", 0/10, no bots, 10.0.0.1, CH
Alpha ==
    [name |-> <<65, 108, 112, 104, 97>>, map |-> <<68, 117, 115, 116>>,
     players |-> 0, max_players |-> 10, bots |-> 0,
     ip |-> <<49, 48, 46, 48, 46, 48, 46, 49>>, port |-> 27015,
     country |-> Str(<<67, 72>>)]
\* "Beta", map "dust", 10/10, no bots, 10.0.0.2, US
Beta ==
    [name |-> <<66, 101, 116, 97>>, map |-> <<100, 117, 115, 116>>,
     players |-> 10, max_players |-> 10, bots |-> 0,
     ip |-> <<49, 48, 46, 48, 46, 48, 46, 50>>, port |-> 27015,
     country |-> Str(<<85, 83>>)]
\* "Gamma", map "cs", 5/10, 2 bots, 9.9.9.9, country ""
Gamma ==
    [name |-> <<71, 97, 109, 109, 97>>, map |-> <<99, 115>>,
     players |-> 5, max_players |-> 10, bots |-> 2,
     ip |-> <<57, 46, 57, 46, 57, 46, 57>>, port |-> 27015,
     country |-> Str(Empty)]
\* "Al<U+0001>pha" (a control character in the name), map "Dust", 12/10: more
\* players than slots, no bots, 1.10.0.2, no country in the JSON
Crowded ==
    [name |-> <<65, 108, 1, 112, 104, 97>>, map |-> <<68, 117, 115, 116>>,
     players |-> 12, max_players |-> 10, bots |-> 0,
     ip |-> <<49, 46, 49, 48, 46, 48, 46, 50>>, port |-> 27016,
     country |-> Undefined]
\* "alpha", map "cs", 5/10, 5 bots, 10.0.0.1 (another port), CH
Lower ==
    [name |-> <<97, 108, 112, 104, 97>>, map |-> <<99, 115>>,
     players |-> 5, max_players |-> 10, bots |-> 5,
     ip |-> <<49, 48, 46, 48, 46, 48, 46, 49>>, port |-> 27016,
     country |-> Str(<<67, 72>>)]

Catalog == {Alpha, Beta, Gamma, Crowded, Lower}

\* The lists of at most n distinct records of S, in every order.
RECURSIVE ListsUpTo(_, _)
ListsUpTo(S, n) ==
    IF n = 0 THEN {<< >>}
    ELSE LET shorter == ListsUpTo(S, n - 1)
         IN  shorter \cup {Append(s, x) : s \in shorter, x \in S}

Distinct(list) == \A i, j \in 1..Len(list) : list[i] = list[j] => i = j

\* The lists the initial page load can deliver as initialServers.
Snapshots == {list \in ListsUpTo(Catalog, MaxServers) : Distinct(list)}

\* The lists GET /api/servers answers a refresh with.
Responses == {<< >>, <<Alpha, Beta, Gamma>>, <<Crowded, Lower>>}

Statuses == {"all", "empty", "full", "partial"}
SortFields == {"name", "map", "players", "ip", "country"}
SortDirections == {"asc", "desc"}

\* What the user types into the three text inputs: nothing, "DU", "LP", "10."
MapFilterInputs == {Empty, <<68, 85>>}
NameFilterInputs == {Empty, <<76, 80>>}
IpFilterInputs == {Empty, <<49, 48, 46>>}

(***************************************************************************)
(* The derived list: filter, then sort (the body of the processedServers   *)
(* memo), and the statistics computed from it.                             *)
(***************************************************************************)
\* StatusKeeps with the comparison of the 'full' test turned around.
StatusKeepsFullInverted(server, status) ==
    IF status # "all"
    THEN /\ ~(status = "empty" /\ server.players > 0)
         /\ ~(status = "full" /\ server.players > server.max_players)
         /\ ~(status = "partial" /\ (server.players = 0
                                      \/ server.players = server.max_players))
    ELSE TRUE

\* The status test of the filter callback: TRUE when the record is kept.
StatusKeeps(server, status) ==
    IF status # "all"
    THEN /\ ~(status = "empty" /\ server.players > 0)
         /\ ~(status = "full" /\ server.players < server.max_players)
         /\ ~(status = "partial" /\ (server.players = 0
                                      \/ server.players = server.max_players))
    ELSE TRUE

\* FilterFn with the noBots test applied only when no text filter is set.
FilterFnBotsOnlyAlone(server, f) ==
    LET name == IF f.stripSpecialChars THEN stripSpecialChars(server.name)
                ELSE server.name
        map == IF f.stripSpecialChars THEN stripSpecialChars(server.map)
               ELSE server.map
    IN  /\ StatusKeeps(server, f.status)
        /\ IF Truthy(f.mapFilter) \/ Truthy(f.nameFilter) \/ Truthy(f.ipFilter)
           THEN ~ \/ (Truthy(f.mapFilter)
                        /\ ~includes(toLowerCase(map), toLowerCase(f.mapFilter)))
                  \/ (Truthy(f.nameFilter)
                        /\ ~includes(toLowerCase(name), toLowerCase(f.nameFilter)))
                  \/ (Truthy(f.ipFilter) /\ ~includes(server.ip, f.ipFilter))
           ELSE ~(f.noBots /\ server.bots > 0)

\* The callback of servers.filter(...).
FilterFn(server, f) ==
    LET name == IF f.stripSpecialChars THEN stripSpecialChars(server.name)
                ELSE server.name
        map == IF f.stripSpecialChars THEN stripSpecialChars(server.map)
               ELSE server.map
    IN  /\ StatusKeeps(server, f.status)
        /\ ~ \/ (f.noBots /\ server.bots > 0)
             \/ (Truthy(f.mapFilter)
                   /\ ~includes(toLowerCase(map), toLowerCase(f.mapFilter)))
             \/ (Truthy(f.nameFilter)
                   /\ ~includes(toLowerCase(name), toLowerCase(f.nameFilter)))
             \/ (Truthy(f.ipFilter) /\ ~includes(server.ip, f.ipFilter))

\* Array.prototype.filter: the kept elements, in their order.
Filtered(list, f) == SelectSeq(list, LAMBDA server : FilterFn(server, f))

\* server.country || ''
CountryOrEmpty(server) ==
    IF server.country.defined /\ Truthy(server.country.str)
    THEN server.country.str ELSE Empty

\* getValue of the sort callback, for the four string fields.
GetValue(server, field, f) ==
    CASE field = "name" -> IF f.stripSpecialChars
                           THEN stripSpecialChars(server.name) ELSE server.name
      [] field = "map" -> IF f.stripSpecialChars
                          THEN stripSpecialChars(server.map) ELSE server.map
      [] field = "ip" -> server.ip
      [] field = "country" -> CountryOrEmpty(server)

\* Multiplier with the direction ignored.
MultiplierAlwaysAsc(direction) == 1

Multiplier(direction) == IF direction = "asc" THEN 1 ELSE -1

\* The callback of sort(...): 'players' is the one numeric field (subtraction),
\* the others are strings (localeCompare).
CompareFn(a, b, field, direction, f) ==
    Multiplier(direction)
      * (IF field = "players" THEN a.players - b.players
         ELSE localeCompare(GetValue(a, field, f), GetValue(b, field, f)))

\* Array.prototype.sort is a stable insertion into the sorted prefix: the new
\* element goes before the first one it compares less than.
RECURSIVE InsertSorted(_, _, _, _, _)
InsertSorted(sorted, x, field, direction, f) ==
    IF sorted = << >> THEN <<x>>
    ELSE IF CompareFn(x, Head(sorted), field, direction, f) < 0
         THEN <<x>> \o sorted
         ELSE <<Head(sorted)>>
                \o InsertSorted(Tail(sorted), x, field, direction, f)

RECURSIVE SortFrom(_, _, _, _, _)
SortFrom(sorted, rest, field, direction, f) ==
    IF rest = << >> THEN sorted
    ELSE SortFrom(InsertSorted(sorted, Head(rest), field, direction, f),
                  Tail(rest), field, direction, f)

Reverse(list) == [i \in 1..Len(list) |-> list[Len(list) + 1 - i]]

\* Sort with 'desc' done as the reverse of the ascending order.
SortReversedForDesc(list, field, direction, f) ==
    IF direction = "desc"
    THEN Reverse(SortFrom(<< >>, list, field, "asc", f))
    ELSE SortFrom(<< >>, list, field, direction, f)

Sort(list, field, direction, f) == SortFrom(<< >>, list, field, direction, f)

\* The value the processedServers memo computes from its four dependencies.
ProcessedServers(list, f, field, direction) ==
    Sort(Filtered(list, f), field, direction, f)

RECURSIVE SumPlayers(_)
SumPlayers(list) ==
    IF list = << >> THEN 0 ELSE Head(list).players + SumPlayers(Tail(list))

\* The value the stats memo computes from processedServers.
Stats(processed) ==
    [totalPlayers |-> SumPlayers(processed), totalServers |-> Len(processed)]

(***************************************************************************)
(* The state of ServerBrowserClient.                                       *)
(***************************************************************************)
VARIABLES
    servers,            \* useState(initialServers)
    loading,            \* useState(false)
    error,              \* useState(null): Null or the message
    isInitialLoad,      \* useState(true)
    sortField,          \* useState('players')
    sortDirection,      \* useState('desc')
    filters,            \* useState({status: 'all', ...})
    selectedServer,     \* useState(null): << >> or <<server>>
    showAdminPanel,     \* useState(false)
    isRefreshing,       \* useState(false)
    processedServers,   \* the value held by the processedServers memo
    stats,              \* the value held by the stats memo
    inflight,           \* the fetchServers calls awaiting their response,
                        \* oldest first; overtaken records that the response
                        \* of a call started later has been applied meanwhile
    lastFetch,          \* how the fetchServers call that ended last ended
    view,               \* "requested", "active", "failed" or "torn down"
    interval,           \* << >>, or the armed interval with the
                        \* servers.length its fetchServers callback holds
    \* AdminPanel
    credentials,        \* useState({username: '', password: ''})
    isAuthenticated,    \* useState(false)
    isCheckingAuth,     \* useState(true)
    panelLoading,       \* AdminPanel's loading, useState(false)
    panelError,         \* AdminPanel's error, useState(null)
    panelSuccess,       \* AdminPanel's success, useState(null)
    cookie,             \* the admin_credentials cookie: << >> or <<saved>>
    authCalls,          \* the testAuthentication calls awaiting their
                        \* response, oldest first
    loginCheckingAuth,  \* the isCheckingAuth held by the testAuthentication
                        \* that the memoised handleLogin calls
    \* a proxy route handling one request
    request,            \* the incoming request
    upstream,           \* how the upstream service answers
    upstreamCall,       \* << >> or <<the request sent to the upstream service>>
    response,           \* << >> or <<the response returned>>
    \* a call of a pure function
    argument,           \* the function called and its argument
    returned            \* << >> or <<the value returned>>

panel == <<credentials, isAuthenticated, isCheckingAuth, panelLoading,
           panelError, panelSuccess, cookie, authCalls, loginCheckingAuth>>

proxy == <<request, upstream, upstreamCall, response>>

pure == <<argument, returned>>

vars == <<servers, loading, error, isInitialLoad, sortField, sortDirection,
          filters, selectedServer, showAdminPanel, isRefreshing,
          processedServers, stats, inflight, lastFetch, view, interval,
          panel, proxy, pure>>

Null == "null"
\* 'Failed to fetch servers' is thrown for a non-2xx response; a rejected fetch
\* carries the runtime's own message.
FetchErrors == {"Failed to fetch servers", "Failed to fetch"}

InitialFilters ==
    [status |-> "all", noBots |-> FALSE, mapFilter |-> Empty,
     nameFilter |-> Empty, ipFilter |-> Empty, stripSpecialChars |-> TRUE]

\* MemoProcessed with sortDirection left out of the dependency list.
MemoProcessedNoDirection(held, oldDeps, newDeps) ==
    IF SubSeq(newDeps, 1, 3) = SubSeq(oldDeps, 1, 3) THEN held
    ELSE ProcessedServers(newDeps[1], newDeps[2], newDeps[3], newDeps[4])

\* useMemo(..., [servers, filters, sortField, sortDirection]): the held value is
\* recomputed when a dependency has changed, and kept otherwise.
MemoProcessed(held, oldDeps, newDeps) ==
    IF newDeps = oldDeps THEN held
    ELSE ProcessedServers(newDeps[1], newDeps[2], newDeps[3], newDeps[4])

\* MemoStats with processedServers.length as the dependency.
MemoStatsByLength(held, oldProcessed, newProcessed) ==
    IF Len(newProcessed) = Len(oldProcessed) THEN held ELSE Stats(newProcessed)

\* useMemo(..., [processedServers])
MemoStats(held, oldProcessed, newProcessed) ==
    IF newProcessed = oldProcessed THEN held ELSE Stats(newProcessed)

\* The armed interval of a render with the given servers.length.
IntervalFor(length) == <<[serversLength |-> length]>>

\* useEffect(..., [fetchServers]), with fetchServers a new callback whenever
\* servers.length has changed: the cleanup clears the armed interval and the
\* effect sets a new one, which calls the new callback.
EffectInterval(armed, length) ==
    IF armed # << >> /\ armed[1].serversLength # length
    THEN IntervalFor(length)
    ELSE armed

\* The render that follows a state update: both memos are brought up to date,
\* then the effect runs.
Render ==
    /\ processedServers' =
          MemoProcessed(processedServers,
                        <<servers, filters, sortField, sortDirection>>,
                        <<servers', filters', sortField', sortDirection'>>)
    /\ stats' = MemoStats(stats, processedServers, processedServers')
    /\ interval' = EffectInterval(interval, Len(servers'))

EmptyCredentials == [username |-> "", password |-> ""]

\* AdminPanel as constructed, with the cookie the browser holds.
PanelInit(cookies) ==
    /\ credentials = EmptyCredentials
    /\ isAuthenticated = FALSE
    /\ isCheckingAuth = TRUE
    /\ panelLoading = FALSE
    /\ panelError = Null
    /\ panelSuccess = Null
    /\ cookie \in cookies
    /\ authCalls = << >>
    /\ loginCheckingAuth = TRUE

\* No request is being handled by a proxy route.
ProxyIdle ==
    /\ request = << >>
    /\ upstream = << >>
    /\ upstreamCall = << >>
    /\ response = << >>

\* No pure function is being called.
PureIdle == argument = << >> /\ returned = << >>

\* The state of ServerBrowserClient after construction with the given
\* initialServers.
InitEngine(initialServers) ==
    /\ servers \in initialServers
    /\ loading = FALSE
    /\ error = Null
    /\ isInitialLoad = TRUE
    /\ sortField = "players"
    /\ sortDirection = "desc"
    /\ filters = InitialFilters
    /\ selectedServer = << >>
    /\ showAdminPanel = FALSE
    /\ isRefreshing = FALSE
    /\ processedServers =
          ProcessedServers(servers, InitialFilters, "players", "desc")
    /\ stats = Stats(processedServers)
    /\ inflight = << >>
    /\ lastFetch = "none"
    /\ view = "active"
    /\ interval = IntervalFor(Len(servers))

\* The page after construction, in a browser that holds no saved credentials.
InitWith(initialServers) ==
    /\ InitEngine(initialServers)
    /\ PanelInit({<< >>})
    /\ ProxyIdle
    /\ PureIdle

Init == InitWith(Responses)

\* The list view is what is rendered: the component is mounted and shows
\* neither the spinner nor the error view.
ListShown == view = "active" /\ ~(isInitialLoad /\ loading) /\ error = Null

RemoveAt(seq, i) == SubSeq(seq, 1, i - 1) \o SubSeq(seq, i + 1, Len(seq))

(***************************************************************************)
(* The refresh timer and fetchServers.                                     *)
(***************************************************************************)
\* A state setter called with the value next: React drops the update when the
\* component has been unmounted, and the cell keeps its current value.
SetStateUnguarded(next, current) == next

SetState(next, current) == IF view = "active" THEN next ELSE current

\* The calls still awaiting their response once call i has ended; the calls
\* started before it are marked when its response has been applied.
Remaining(i, applied) ==
    RemoveAt([j \in 1..Len(inflight) |->
                 IF j < i
                 THEN [inflight[j] EXCEPT !.overtaken = @ \/ applied]
                 ELSE inflight[j]], i)

\* The interval fires: fetchServers(true) runs up to its await.  The callback
\* is the one the armed interval was set with, so it holds the servers.length
\* of the render that set it.
Tick ==
    /\ interval # << >>
    /\ Len(inflight) < MaxInFlight
    /\ isRefreshing' = SetState(TRUE, isRefreshing)
    /\ inflight' = Append(inflight,
                          [isBackgroundRefresh |-> TRUE,
                           serversLength |-> interval[1].serversLength,
                           overtaken |-> FALSE])
    /\ UNCHANGED <<view, servers, loading, error, isInitialLoad, sortField,
                   sortDirection, filters, selectedServer, showAdminPanel,
                   lastFetch>>
    /\ Render
    /\ UNCHANGED <<panel, proxy, pure>>

\* FetchSucceeds with the filters put back to their initial values.
FetchSucceedsResetsFilters(i, data) ==
    /\ i \in 1..Len(inflight)
    /\ servers' = SetState(data, servers)
    /\ error' = SetState(Null, error)
    /\ filters' = SetState(InitialFilters, filters)
    /\ IF inflight[i].isBackgroundRefresh
       THEN /\ isRefreshing' = SetState(FALSE, isRefreshing)
            /\ UNCHANGED <<loading, isInitialLoad>>
       ELSE /\ loading' = SetState(FALSE, loading)
            /\ isInitialLoad' = SetState(FALSE, isInitialLoad)
            /\ UNCHANGED isRefreshing
    /\ inflight' = Remaining(i, view = "active")
    /\ lastFetch' = "ok"
    /\ UNCHANGED <<view, sortField, sortDirection, selectedServer,
                   showAdminPanel>>
    /\ Render
    /\ UNCHANGED <<panel, proxy, pure>>

\* FetchSucceeds without setError(null).
FetchSucceedsKeepsError(i, data) ==
    /\ i \in 1..Len(inflight)
    /\ servers' = SetState(data, servers)
    /\ IF inflight[i].isBackgroundRefresh
       THEN /\ isRefreshing' = SetState(FALSE, isRefreshing)
            /\ UNCHANGED <<loading, isInitialLoad>>
       ELSE /\ loading' = SetState(FALSE, loading)
            /\ isInitialLoad' = SetState(FALSE, isInitialLoad)
            /\ UNCHANGED isRefreshing
    /\ inflight' = Remaining(i, view = "active")
    /\ lastFetch' = "ok"
    /\ UNCHANGED <<view, error, sortField, sortDirection, filters,
                   selectedServer, showAdminPanel>>
    /\ Render
    /\ UNCHANGED <<panel, proxy, pure>>

\* The response is 2xx and parses: the try block completes, then finally.
FetchSucceeds(i, data) ==
    /\ i \in 1..Len(inflight)
    /\ servers' = SetState(data, servers)
    /\ error' = SetState(Null, error)
    /\ IF inflight[i].isBackgroundRefresh
       THEN /\ isRefreshing' = SetState(FALSE, isRefreshing)
            /\ UNCHANGED <<loading, isInitialLoad>>
       ELSE /\ loading' = SetState(FALSE, loading)
            /\ isInitialLoad' = SetState(FALSE, isInitialLoad)
            /\ UNCHANGED isRefreshing
    /\ inflight' = Remaining(i, view = "active")
    /\ lastFetch' = "ok"
    /\ UNCHANGED <<view, sortField, sortDirection, filters, selectedServer,
                   showAdminPanel>>
    /\ Render
    /\ UNCHANGED <<panel, proxy, pure>>

\* FetchFails with the error shown whatever the kind of refresh.
FetchFailsAlwaysShown(i, message) ==
    /\ i \in 1..Len(inflight)
    /\ error' = SetState(message, error)
    /\ IF inflight[i].isBackgroundRefresh
       THEN /\ isRefreshing' = SetState(FALSE, isRefreshing)
            /\ UNCHANGED <<loading, isInitialLoad>>
       ELSE /\ loading' = SetState(FALSE, loading)
            /\ isInitialLoad' = SetState(FALSE, isInitialLoad)
            /\ UNCHANGED isRefreshing
    /\ inflight' = Remaining(i, FALSE)
    /\ lastFetch' = "failed"
    /\ UNCHANGED <<view, servers, sortField, sortDirection, filters,
                   selectedServer, showAdminPanel>>
    /\ Render
    /\ UNCHANGED <<panel, proxy, pure>>

\* The fetch rejects, or the response is not 2xx: the catch block, then finally.
FetchFails(i, message) ==
    /\ i \in 1..Len(inflight)
    /\ IF ~inflight[i].isBackgroundRefresh \/ inflight[i].serversLength = 0
       THEN error' = SetState(message, error)
       ELSE UNCHANGED error
    /\ IF inflight[i].isBackgroundRefresh
       THEN /\ isRefreshing' = SetState(FALSE, isRefreshing)
            /\ UNCHANGED <<loading, isInitialLoad>>
       ELSE /\ loading' = SetState(FALSE, loading)
            /\ isInitialLoad' = SetState(FALSE, isInitialLoad)
            /\ UNCHANGED isRefreshing
    /\ inflight' = Remaining(i, FALSE)
    /\ lastFetch' = "failed"
    /\ UNCHANGED <<view, servers, sortField, sortDirection, filters,
                   selectedServer, showAdminPanel>>
    /\ Render
    /\ UNCHANGED <<panel, proxy, pure>>

\* Unmount that leaves the interval armed.
UnmountKeepsInterval ==
    /\ view = "active"
    /\ view' = "torn down"
    /\ UNCHANGED <<servers, loading, error, isInitialLoad, sortField,
                   sortDirection, filters, selectedServer, showAdminPanel,
                   isRefreshing, processedServers, stats, inflight, lastFetch,
                   interval>>
    /\ UNCHANGED <<panel, proxy, pure>>

\* The component is unmounted: the cleanup of the effect clears the interval.
\* Nothing cancels the calls awaiting their response.
Unmount ==
    /\ view = "active"
    /\ view' = "torn down"
    /\ interval' = << >>
    /\ UNCHANGED <<servers, loading, error, isInitialLoad, sortField,
                   sortDirection, filters, selectedServer, showAdminPanel,
                   isRefreshing, processedServers, stats, inflight, lastFetch>>
    /\ UNCHANGED <<panel, proxy, pure>>

(***************************************************************************)
(* AdminPanel: its credentials, the cookie that saves them, and the        *)
(* testAuthentication calls.  The tabs, the forms and the list of banned   *)
(* servers are left out.                                                   *)
(***************************************************************************)
MaxAuthCalls == 2

\* What the user types in the login form.
CredentialInputs ==
    {[username |-> "admin", password |-> "secret"],
     [username |-> "admin", password |-> "guess"]}

\* How a testAuthentication call ends: the response is ok and its body
\* parses, the response is ok and response.json() throws, the response is not
\* ok, or the fetch rejects.
AuthOutcomes == {"ok", "unparsable", "rejected", "failed"}

\* saveAdminCredentials(c) writes the cookie that loadAdminCredentials() reads
\* back as c; clearAdminCredentials() leaves none.
Saved(c) == <<c>>

\* handleLogin is memoised on [credentials, isAuthenticated]: the
\* testAuthentication it calls is the one of the last render in which one of
\* them changed, and holds the isCheckingAuth of that render.
LoginClosure ==
    loginCheckingAuth' =
        IF credentials' # credentials \/ isAuthenticated' # isAuthenticated
        THEN isCheckingAuth'
        ELSE loginCheckingAuth

\* The effect on [isOpen] when the panel opens: the saved credentials are
\* loaded and tested.  The testAuthentication called is the one of the render
\* that opened the panel, with the isCheckingAuth of that render.
OpenEffect ==
    IF cookie # << >>
    THEN /\ Len(authCalls) < MaxAuthCalls
         /\ isCheckingAuth' = TRUE
         /\ credentials' = cookie[1]
         /\ authCalls' = Append(authCalls,
                                [testCredentials |-> cookie[1],
                                 isCheckingAuth |-> isCheckingAuth,
                                 login |-> FALSE,
                                 isAuthenticated |-> isAuthenticated,
                                 loggedOut |-> FALSE])
         /\ loginCheckingAuth' = TRUE
         /\ UNCHANGED <<isAuthenticated, panelLoading, panelError,
                        panelSuccess, cookie>>
    ELSE /\ isCheckingAuth' = FALSE
         /\ UNCHANGED <<credentials, isAuthenticated, panelLoading, panelError,
                        panelSuccess, cookie, authCalls, loginCheckingAuth>>

\* handleClose, before it calls onClose: clearMessages().
handleClose ==
    /\ panelError' = Null
    /\ panelSuccess' = Null
    /\ UNCHANGED <<credentials, isAuthenticated, isCheckingAuth, panelLoading,
                   cookie, authCalls, loginCheckingAuth>>

\* The login form is what the open panel shows.
LoginFormShown == showAdminPanel /\ ~isAuthenticated /\ ~isCheckingAuth

Engine == <<servers, loading, error, isInitialLoad, sortField, sortDirection,
            filters, selectedServer, showAdminPanel, isRefreshing,
            processedServers, stats, inflight, lastFetch, view, interval>>

\* The user types in the login form: setCredentials.
SetCredentials(typed) ==
    /\ LoginFormShown
    /\ typed # credentials
    /\ credentials' = typed
    /\ UNCHANGED <<isAuthenticated, isCheckingAuth, panelLoading, panelError,
                   panelSuccess, cookie, authCalls>>
    /\ LoginClosure
    /\ UNCHANGED <<Engine, proxy, pure>>

\* handleLogin up to its await: the form is submitted with both required
\* fields filled.
handleLogin ==
    /\ LoginFormShown
    /\ ~panelLoading
    /\ credentials.username # "" /\ credentials.password # ""
    /\ Len(authCalls) < MaxAuthCalls
    /\ panelLoading' = TRUE
    /\ panelError' = Null
    /\ panelSuccess' = Null
    /\ authCalls' = Append(authCalls,
                           [testCredentials |-> credentials,
                            isCheckingAuth |-> loginCheckingAuth,
                            login |-> TRUE,
                            isAuthenticated |-> isAuthenticated,
                            loggedOut |-> FALSE])
    /\ UNCHANGED <<credentials, isAuthenticated, isCheckingAuth, cookie,
                   loginCheckingAuth>>
    /\ UNCHANGED <<Engine, proxy, pure>>

\* testAuthentication from its await on, for the call at position i, followed
\* by the rest of handleLogin when handleLogin made the call: the credentials
\* are saved when the isAuthenticated that handleLogin holds is true.
AuthEnds(i, outcome) ==
    /\ i \in 1..Len(authCalls)
    /\ LET call == authCalls[i]
           cleared == outcome = "rejected" /\ call.isCheckingAuth
       IN /\ isAuthenticated' = (outcome = "ok")
          /\ credentials' =
                IF outcome \in {"ok", "unparsable"} THEN call.testCredentials
                ELSE IF cleared THEN EmptyCredentials
                ELSE credentials
          /\ panelSuccess' =
                IF outcome # "ok" THEN panelSuccess
                ELSE IF call.isCheckingAuth
                THEN "Welcome back! Auto-logged in with saved credentials."
                ELSE "Authentication successful"
          /\ panelError' =
                IF outcome = "ok" THEN panelError
                ELSE IF outcome = "rejected"
                THEN "Invalid username or password"
                ELSE "Authentication failed"
          /\ isCheckingAuth' = FALSE
          /\ cookie' =
                IF call.login /\ call.isAuthenticated
                THEN Saved(call.testCredentials)
                ELSE IF cleared THEN << >>
                ELSE cookie
          /\ panelLoading' = IF call.login THEN FALSE ELSE panelLoading
    /\ authCalls' = RemoveAt(authCalls, i)
    /\ LoginClosure
    /\ UNCHANGED <<Engine, proxy, pure>>

\* The Logout button, shown while isAuthenticated.
handleLogout ==
    /\ showAdminPanel
    /\ isAuthenticated
    /\ cookie' = << >>
    /\ isAuthenticated' = FALSE
    /\ credentials' = EmptyCredentials
    /\ panelError' = Null
    /\ panelSuccess' = "Logged out successfully"
    /\ authCalls' = [j \in 1..Len(authCalls) |->
                        [authCalls[j] EXCEPT !.loggedOut = TRUE]]
    /\ UNCHANGED <<isCheckingAuth, panelLoading>>
    /\ LoginClosure
    /\ UNCHANGED <<Engine, proxy, pure>>

(***************************************************************************)
(* The handlers of the list view.                                          *)
(***************************************************************************)
\* handleSort with the direction toggled on every click.
handleSortAlwaysToggles(field) ==
    /\ ListShown
    /\ sortField' = field
    /\ sortDirection' = IF sortDirection = "asc" THEN "desc" ELSE "asc"
    /\ UNCHANGED <<view, servers, loading, error, isInitialLoad, filters,
                   selectedServer, showAdminPanel, isRefreshing, inflight,
                   lastFetch>>
    /\ Render
    /\ UNCHANGED <<panel, proxy, pure>>

\* handleSort(field), from a click on a column header.
handleSort(field) ==
    /\ ListShown
    /\ sortField' = field
    /\ sortDirection' = IF sortField = field
                        THEN (IF sortDirection = "asc" THEN "desc" ELSE "asc")
                        ELSE "asc"
    /\ UNCHANGED <<view, servers, loading, error, isInitialLoad, filters,
                   selectedServer, showAdminPanel, isRefreshing, inflight,
                   lastFetch>>
    /\ Render
    /\ UNCHANGED <<panel, proxy, pure>>

\* setFilters({...filters, ...change}), from one of the filter controls.
SetFilters(newFilters) ==
    /\ ListShown
    /\ newFilters # filters
    /\ filters' = newFilters
    /\ UNCHANGED <<view, servers, loading, error, isInitialLoad, sortField,
                   sortDirection, selectedServer, showAdminPanel, isRefreshing,
                   inflight, lastFetch>>
    /\ Render
    /\ UNCHANGED <<panel, proxy, pure>>

SetStatus == \E v \in Statuses : SetFilters([filters EXCEPT !.status = v])
SetMapFilter ==
    \E v \in MapFilterInputs : SetFilters([filters EXCEPT !.mapFilter = v])
SetNameFilter ==
    \E v \in NameFilterInputs : SetFilters([filters EXCEPT !.nameFilter = v])
SetIpFilter ==
    \E v \in IpFilterInputs : SetFilters([filters EXCEPT !.ipFilter = v])
ToggleNoBots == SetFilters([filters EXCEPT !.noBots = ~filters.noBots])
ToggleStripSpecialChars ==
    SetFilters([filters EXCEPT !.stripSpecialChars = ~filters.stripSpecialChars])

\* A click on a row: setSelectedServer(server).
SelectServer(k) ==
    /\ ListShown
    /\ k \in 1..Len(processedServers)
    /\ selectedServer' = <<processedServers[k]>>
    /\ UNCHANGED <<view, servers, loading, error, isInitialLoad, sortField,
                   sortDirection, filters, showAdminPanel, isRefreshing,
                   inflight, lastFetch>>
    /\ Render
    /\ UNCHANGED <<panel, proxy, pure>>

handleCloseServerModal ==
    /\ ListShown
    /\ selectedServer # << >>
    /\ selectedServer' = << >>
    /\ UNCHANGED <<view, servers, loading, error, isInitialLoad, sortField,
                   sortDirection, filters, showAdminPanel, isRefreshing,
                   inflight, lastFetch>>
    /\ Render
    /\ UNCHANGED <<panel, proxy, pure>>

\* The Admin button: setShowAdminPanel(true).
OpenAdminPanel ==
    /\ ListShown
    /\ ~showAdminPanel
    /\ showAdminPanel' = TRUE
    /\ UNCHANGED <<view, servers, loading, error, isInitialLoad, sortField,
                   sortDirection, filters, selectedServer, isRefreshing,
                   inflight, lastFetch>>
    /\ Render
    /\ OpenEffect
    /\ UNCHANGED <<proxy, pure>>

\* The close button of the panel: handleClose, whose onClose is
\* handleCloseAdminPanel.
handleCloseAdminPanel ==
    /\ ListShown
    /\ showAdminPanel
    /\ showAdminPanel' = FALSE
    /\ UNCHANGED <<view, servers, loading, error, isInitialLoad, sortField,
                   sortDirection, filters, selectedServer, isRefreshing,
                   inflight, lastFetch>>
    /\ Render
    /\ handleClose
    /\ UNCHANGED <<proxy, pure>>

\* The filter and sort controls of the list view.
Controls ==
    \/ \E field \in SortFields : handleSort(field)
    \/ SetStatus
    \/ SetMapFilter
    \/ SetNameFilter
    \/ SetIpFilter
    \/ ToggleNoBots
    \/ ToggleStripSpecialChars

\* The component with its refresh timer: the list is replaced by refreshes
\* while the user sorts, filters by status and bots, and opens and closes the
\* server modal.  The admin panel, whose state the list never reads, is
\* exercised by SpecAdmin.
Next ==
    \/ Tick
    \/ \E i \in 1..MaxInFlight, data \in Responses : FetchSucceeds(i, data)
    \/ \E i \in 1..MaxInFlight, message \in FetchErrors : FetchFails(i, message)
    \/ \E field \in SortFields : handleSort(field)
    \/ SetStatus
    \/ ToggleNoBots
    \/ \E k \in 1..MaxServers : SelectServer(k)
    \/ handleCloseServerModal

Spec == Init /\ [][Next]_vars

\* The derived list as a function of its inputs: any initial list, and every
\* filter and sort control, between two refreshes.
InitDerive == InitWith(Snapshots)

NextDerive == Controls

SpecDerive == InitDerive /\ [][NextDerive]_vars

(***************************************************************************)
(* The page from its request to its teardown.                              *)
(***************************************************************************)
\* Home has been requested and awaits getServers(): the component does not
\* exist yet, and its cells are shown with the values useState starts from.
InitLifecycle ==
    /\ view = "requested"
    /\ interval = << >>
    /\ servers = << >>
    /\ loading = FALSE
    /\ error = Null
    /\ isInitialLoad = TRUE
    /\ sortField = "players"
    /\ sortDirection = "desc"
    /\ filters = InitialFilters
    /\ selectedServer = << >>
    /\ showAdminPanel = FALSE
    /\ isRefreshing = FALSE
    /\ processedServers = << >>
    /\ stats = Stats(<< >>)
    /\ inflight = << >>
    /\ lastFetch = "none"
    /\ PanelInit({<< >>})
    /\ ProxyIdle
    /\ PureIdle

\* getServers() returns the list: the component is constructed with it as
\* initialServers and mounted, and its effect arms the interval.
HomeSucceeds(data) ==
    /\ view = "requested"
    /\ view' = "active"
    /\ servers' = data
    /\ processedServers' =
          ProcessedServers(data, filters, sortField, sortDirection)
    /\ stats' = Stats(processedServers')
    /\ interval' = IntervalFor(Len(data))
    /\ lastFetch' = "ok"
    /\ UNCHANGED <<loading, error, isInitialLoad, sortField, sortDirection,
                   filters, selectedServer, showAdminPanel, isRefreshing,
                   inflight>>
    /\ UNCHANGED <<panel, proxy, pure>>

\* HomeFails with the failure caught and an empty list rendered.
HomeFailsRendersEmpty ==
    /\ view = "requested"
    /\ view' = "active"
    /\ interval' = IntervalFor(0)
    /\ lastFetch' = "failed"
    /\ UNCHANGED <<servers, loading, error, isInitialLoad, sortField,
                   sortDirection, filters, selectedServer, showAdminPanel,
                   isRefreshing, processedServers, stats, inflight>>
    /\ UNCHANGED <<panel, proxy, pure>>

\* The fetch of getServers() rejects, or getServers() throws on a response
\* that is not 2xx: Home throws, and the component is never constructed.
HomeFails ==
    /\ view = "requested"
    /\ view' = "failed"
    /\ lastFetch' = "failed"
    /\ UNCHANGED <<servers, loading, error, isInitialLoad, sortField,
                   sortDirection, filters, selectedServer, showAdminPanel,
                   isRefreshing, processedServers, stats, inflight, interval>>
    /\ UNCHANGED <<panel, proxy, pure>>

NextLifecycle ==
    \/ \E data \in Responses : HomeSucceeds(data)
    \/ HomeFails
    \/ Tick
    \/ \E i \in 1..MaxInFlight, data \in Responses : FetchSucceeds(i, data)
    \/ \E i \in 1..MaxInFlight, message \in FetchErrors : FetchFails(i, message)
    \/ Unmount

SpecLifecycle == InitLifecycle /\ [][NextLifecycle]_vars

(***************************************************************************)
(* The admin panel over a list that stays as it is: the browser may hold   *)
(* saved credentials from an earlier visit.                                *)
(***************************************************************************)
InitAdmin ==
    /\ InitEngine({<<Alpha, Beta, Gamma>>})
    /\ PanelInit({<< >>} \cup {Saved(c) : c \in CredentialInputs})
    /\ ProxyIdle
    /\ PureIdle

NextAdmin ==
    \/ OpenAdminPanel
    \/ handleCloseAdminPanel
    \/ \E typed \in CredentialInputs : SetCredentials(typed)
    \/ handleLogin
    \/ \E i \in 1..MaxAuthCalls, outcome \in AuthOutcomes : AuthEnds(i, outcome)
    \/ handleLogout

SpecAdmin == InitAdmin /\ [][NextAdmin]_vars

(***************************************************************************)
(* The administrative proxy routes: /api/admin/blacklist, /api/admin/add   *)
(* and /api/admin/banned.  A header or a form field is << >> when absent   *)
(* and <<value>> when present.                                             *)
(***************************************************************************)
BLACKLIST_REASONS ==
    {"none", "differing_address", "illegal_player_count", "suspicious_players",
     "same_connection_time"}

\* The incoming requests: with and without the Authorization header, with a
\* body that parses as form data or not, with the address and the reason
\* absent, empty or given, the reason inside the enum or outside it.
Requests ==
    [route : {"blacklist"},
     authorization : {<< >>, <<"">>, <<"Basic YWRtaW46c2VjcmV0">>},
     form : BOOLEAN,
     address : {<< >>, <<"">>, <<"1.2.3.4:27015">>},
     reason : {<< >>, <<"">>, <<"none">>, <<"suspicious_players">>,
               <<"cheater">>}]
    \cup
    [route : {"add"},
     authorization : {<< >>, <<"">>, <<"Basic YWRtaW46c2VjcmV0">>},
     form : BOOLEAN,
     address : {<< >>, <<"">>, <<"1.2.3.4:27015">>},
     reason : {<< >>}]
    \cup
    [route : {"banned"},
     authorization : {<< >>, <<"">>, <<"Basic YWRtaW46c2VjcmV0">>},
     form : {TRUE},
     address : {<< >>},
     reason : {<< >>}]

UpstreamBody == "upstream body"

\* The upstream service: the fetch rejects, or it resolves with a status and a
\* body that parses as JSON or does not.
Upstreams ==
    [rejected : {TRUE}, status : {0}, json : {FALSE}]
    \cup
    [rejected : {FALSE},
     status : {200, 201, 204, 304, 400, 401, 404, 500},
     json : BOOLEAN]

\* response.ok
Ok(status) == status \in 200..299

\* The statuses that carry no body: such a response has nothing to parse, and
\* a response with such a status cannot be built with a body.
NullBodyStatus == {101, 204, 205, 304}

\* response.json() resolves.
Parses(answer) == answer.json /\ answer.status \notin NullBodyStatus

\* A header or field value that is neither null nor the empty string.
Given(field) == field # << >> /\ field[1] # ""

Reply(status, body) == [status |-> status, body |-> body]

Outcome(sent, reply) == [sent |-> sent, reply |-> reply]

\* The part of the three handlers from the resolved upstream fetch on, with
\* the body the handler falls back to and what it does with a status that is
\* neither 2xx nor 401.
Relay(sent, answer, failure, passesStatus) ==
    IF answer.rejected THEN Outcome(sent, Reply(500, failure))
    ELSE IF ~Ok(answer.status)
    THEN IF answer.status = 401
         THEN Outcome(sent, Reply(401, "Invalid credentials"))
         ELSE IF ~passesStatus \/ answer.status \in NullBodyStatus
         THEN Outcome(sent, Reply(500, failure))
         ELSE Outcome(sent, Reply(answer.status,
                                  IF Parses(answer) THEN UpstreamBody
                                  ELSE failure))
    ELSE IF Parses(answer) THEN Outcome(sent, Reply(200, UpstreamBody))
    ELSE Outcome(sent, Reply(500, failure))

\* AddRoute with the address validated before the Authorization header.
AddRouteValidatesFirst(req, answer) ==
    IF ~req.form
    THEN Outcome(<< >>, Reply(500, "Failed to add server"))
    ELSE IF ~Given(req.address)
    THEN Outcome(<< >>, Reply(400, "Address is required"))
    ELSE IF ~Given(req.authorization)
    THEN Outcome(<< >>, Reply(401, "Authorization required"))
    ELSE Relay(<<[route |-> "add", authorization |-> req.authorization[1],
                  address |-> req.address[1], reason |-> << >>]>>,
               answer, "Failed to add server", TRUE)

\* POST /api/admin/add
AddRoute(req, answer) ==
    IF ~Given(req.authorization)
    THEN Outcome(<< >>, Reply(401, "Authorization required"))
    ELSE IF ~req.form
    THEN Outcome(<< >>, Reply(500, "Failed to add server"))
    ELSE IF ~Given(req.address)
    THEN Outcome(<< >>, Reply(400, "Address is required"))
    ELSE Relay(<<[route |-> "add", authorization |-> req.authorization[1],
                  address |-> req.address[1], reason |-> << >>]>>,
               answer, "Failed to add server", TRUE)

\* BlacklistRoute with the upstream status left out of the error response.
BlacklistRouteDropsStatus(req, answer) ==
    IF ~Given(req.authorization)
    THEN Outcome(<< >>, Reply(401, "Authorization required"))
    ELSE IF ~req.form
    THEN Outcome(<< >>, Reply(500, "Failed to blacklist server"))
    ELSE IF ~Given(req.address)
    THEN Outcome(<< >>, Reply(400, "Address is required"))
    ELSE LET sent == <<[route |-> "blacklist",
                        authorization |-> req.authorization[1],
                        address |-> req.address[1],
                        reason |-> IF Given(req.reason)
                                   THEN <<req.reason[1]>> ELSE <<"none">>]>>
             relayed == Relay(sent, answer, "Failed to blacklist server", TRUE)
         IN IF relayed.reply.status \in {401, 500} THEN relayed
            ELSE Outcome(sent, Reply(200, relayed.reply.body))

\* POST /api/admin/blacklist
BlacklistRoute(req, answer) ==
    IF ~Given(req.authorization)
    THEN Outcome(<< >>, Reply(401, "Authorization required"))
    ELSE IF ~req.form
    THEN Outcome(<< >>, Reply(500, "Failed to blacklist server"))
    ELSE IF ~Given(req.address)
    THEN Outcome(<< >>, Reply(400, "Address is required"))
    ELSE Relay(<<[route |-> "blacklist",
                  authorization |-> req.authorization[1],
                  address |-> req.address[1],
                  reason |-> IF Given(req.reason)
                             THEN <<req.reason[1]>> ELSE <<"none">>]>>,
               answer, "Failed to blacklist server", TRUE)

\* GET /api/admin/banned
BannedRoute(req, answer) ==
    IF ~Given(req.authorization)
    THEN Outcome(<< >>, Reply(401, "Authorization required"))
    ELSE Relay(<<[route |-> "banned", authorization |-> req.authorization[1],
                  address |-> << >>, reason |-> << >>]>>,
               answer, "Failed to fetch banned servers", FALSE)

\* The handler of the route of the request runs to its return.
Handled(outcome) ==
    /\ response = << >>
    /\ upstreamCall' = outcome.sent
    /\ response' = <<outcome.reply>>
    /\ UNCHANGED <<request, upstream>>
    /\ UNCHANGED <<Engine, panel, pure>>

POSTBlacklist ==
    request.route = "blacklist" /\ Handled(BlacklistRoute(request, upstream))

POSTAdd == request.route = "add" /\ Handled(AddRoute(request, upstream))

GETBanned == request.route = "banned" /\ Handled(BannedRoute(request, upstream))

InitRoutes ==
    /\ InitEngine({<< >>})
    /\ PanelInit({<< >>})
    /\ PureIdle
    /\ request \in Requests
    /\ upstream \in Upstreams
    /\ upstreamCall = << >>
    /\ response = << >>

NextRoutes == POSTBlacklist \/ POSTAdd \/ GETBanned

SpecRoutes == InitRoutes /\ [][NextRoutes]_vars

(***************************************************************************)
(* The pure functions stripSpecialChars (ServerBrowserClient) and          *)
(* formatTime (ServerModal), called on their own.                          *)
(***************************************************************************)
\* Longest string given to stripSpecialChars.
MaxTextLength == 3
\* Longest connection time given to formatTime, in seconds.
MaxConnectionSeconds == 3725

\* Code units inside and outside the allow-set: U+0001, space, '~', DEL,
\* U+044F (Cyrillic), U+0500 (just above Cyrillic), U+D83D (a high surrogate).
TextAlphabet == {1, 32, 126, 127, 1103, 1280, 55357}

Texts == UNION {[1..n -> TextAlphabet] : n \in 0..MaxTextLength}

\* A number of nanoseconds n is held as <<q, r>> with n = q * 10^9 + r and
\* 0 <= r < 10^9, so that Math.floor(n / 1_000_000_000) is q.
Nanoseconds == (0..MaxConnectionSeconds) \X {0, 1, 999999999}

\* The decimal digits of a natural number, as a string.
RECURSIVE Decimal(_)
Decimal(n) ==
    IF n < 10 THEN <<48 + n>> ELSE Append(Decimal(n \div 10), 48 + (n % 10))

\* formatTime with the minutes taken from all the seconds.
formatTimeAllMinutes(nanoseconds) ==
    LET seconds == nanoseconds[1]
        hours == seconds \div 3600
        minutes == seconds \div 60
    IN IF hours > 0
       THEN Decimal(hours) \o <<104, 32>> \o Decimal(minutes) \o <<109>>
       ELSE Decimal(minutes) \o <<109>>

\* formatTime(nanoseconds): `${hours}h ${minutes}m` or `${minutes}m`
formatTime(nanoseconds) ==
    LET seconds == nanoseconds[1]
        hours == seconds \div 3600
        minutes == (seconds % 3600) \div 60
    IN IF hours > 0
       THEN Decimal(hours) \o <<104, 32>> \o Decimal(minutes) \o <<109>>
       ELSE Decimal(minutes) \o <<109>>

\* A call returns.
Returns(value) ==
    /\ returned = << >>
    /\ returned' = <<value>>
    /\ UNCHANGED argument
    /\ UNCHANGED <<Engine, panel, proxy>>

CallStripSpecialChars ==
    /\ argument.function = "stripSpecialChars"
    /\ Returns(stripSpecialChars(argument.value))

CallFormatTime ==
    /\ argument.function = "formatTime"
    /\ Returns(formatTime(argument.value))

InitPure ==
    /\ InitEngine({<< >>})
    /\ PanelInit({<< >>})
    /\ ProxyIdle
    /\ argument \in [function : {"stripSpecialChars"}, value : Texts]
                      \cup [function : {"formatTime"}, value : Nanoseconds]
    /\ returned = << >>

NextPure == CallStripSpecialChars \/ CallFormatTime

SpecPure == InitPure /\ [][NextPure]_vars

(***************************************************************************)
(* Properties.                                                             *)
(***************************************************************************)
Rows == 1..Len(processedServers)

\* C1: when a background refresh that was started with a non-empty list fails,
\* the failure leaves the raw list as it was and does not replace the list view
\* by the blocking error view.
C1_BackgroundFailureKeepsList ==
    [][\A i \in 1..MaxInFlight, message \in FetchErrors :
         (/\ i <= Len(inflight)
          /\ inflight[i].isBackgroundRefresh
          /\ inflight[i].serversLength > 0
          /\ FetchFails(i, message))
         => (servers' = servers /\ (ListShown => ListShown'))]_vars

\* A background refresh has just failed, and the non-empty list is still shown.
C1_Witness ==
    /\ lastFetch = "failed"
    /\ servers # << >>
    /\ ListShown
    /\ processedServers # << >>

\* The five checks of a record against a filter configuration, as specified.
PassesStatus(r, status) ==
    CASE status = "all" -> TRUE
      [] status = "empty" -> r.players = 0
      [] status = "full" -> r.players >= r.max_players
      [] status = "partial" -> r.players > 0 /\ r.players < r.max_players
PassesHideBots(r, f) == f.noBots => r.bots = 0
Normalized(str, f) == IF f.stripSpecialChars THEN stripSpecialChars(str) ELSE str
ContainsIgnoringCase(str, sub) == includes(toLowerCase(str), toLowerCase(sub))
PassesMap(r, f) ==
    f.mapFilter # Empty => ContainsIgnoringCase(Normalized(r.map, f), f.mapFilter)
PassesName(r, f) ==
    f.nameFilter # Empty => ContainsIgnoringCase(Normalized(r.name, f), f.nameFilter)
PassesIp(r, f) == f.ipFilter # Empty => includes(r.ip, f.ipFilter)
PassesAll(r, f) ==
    /\ PassesStatus(r, f.status)
    /\ PassesHideBots(r, f)
    /\ PassesMap(r, f)
    /\ PassesName(r, f)
    /\ PassesIp(r, f)

Occurrences(list, r) == Cardinality({i \in 1..Len(list) : list[i] = r})

\* C2: the derived list holds exactly the raw records that pass all five checks
\* (status, hideBots, map, name and IP substring), each as often as the raw list
\* holds it, and no other record.
C2_DerivedIsExactlyThePassing ==
    \A r \in Catalog :
        Occurrences(processedServers, r) =
            IF PassesAll(r, filters) THEN Occurrences(servers, r) ELSE 0

\* C3: with status 'full' every derived record has players >= max_players, and
\* with status 'empty' every derived record has players = 0.
C3_FullAndEmpty ==
    /\ filters.status = "full" =>
          \A k \in Rows :
              processedServers[k].players >= processedServers[k].max_players
    /\ filters.status = "empty" =>
          \A k \in Rows : processedServers[k].players = 0

\* After a refresh, the 'full' filter shows some of the servers and hides others.
C3_Witness ==
    /\ lastFetch = "ok"
    /\ filters.status = "full"
    /\ processedServers # << >>
    /\ Len(processedServers) < Len(servers)

\* C4: with status 'partial' every derived record has 0 < players < max_players.
C4_PartialStrictlyBetween ==
    filters.status = "partial" =>
        \A k \in Rows :
            /\ processedServers[k].players > 0
            /\ processedServers[k].players < processedServers[k].max_players

\* C5: with noBots set, no derived record has bots > 0, whatever the other
\* filter fields and the sort configuration are.
C5_NoBots ==
    filters.noBots => \A k \in Rows : ~(processedServers[k].bots > 0)

\* noBots hides a server with bots while a text filter and a status filter are
\* active too and the list is sorted by another field than the initial one.
C5_Witness ==
    /\ filters.noBots
    /\ filters.nameFilter # Empty
    /\ filters.status # "all"
    /\ sortField # "players"
    /\ processedServers # << >>
    /\ \E i \in 1..Len(servers) :
          /\ servers[i].bots > 0
          /\ PassesStatus(servers[i], filters.status)
          /\ PassesName(servers[i], filters)

\* Code-unit (raw) order of two strings: a <= b.
RECURSIVE RawLeq(_, _)
RawLeq(a, b) ==
    IF a = << >> THEN TRUE
    ELSE IF b = << >> THEN FALSE
    ELSE IF Head(a) # Head(b) THEN Head(a) < Head(b)
    ELSE RawLeq(Tail(a), Tail(b))

CountryKey(r) == IF r.country.defined THEN r.country.str ELSE Empty

\* a's key is at most b's key, for the current sort field: numbers for players,
\* locale order of the (normalized or raw) string for name and map, raw string
\* order for ip and country.
KeyLeq(a, b) ==
    CASE sortField = "players" -> a.players <= b.players
      [] sortField = "name" ->
            localeCompare(Normalized(a.name, filters), Normalized(b.name, filters)) <= 0
      [] sortField = "map" ->
            localeCompare(Normalized(a.map, filters), Normalized(b.map, filters)) <= 0
      [] sortField = "ip" -> RawLeq(a.ip, b.ip)
      [] sortField = "country" -> RawLeq(CountryKey(a), CountryKey(b))

\* C6: adjacent records of the derived list are in the order of the sort field's
\* key: non-decreasing for 'asc', non-increasing for 'desc'; a missing country
\* counts as the empty string.
C6_AdjacentOrdered ==
    \A k \in Rows :
        k + 1 \in Rows =>
            IF sortDirection = "asc"
            THEN KeyLeq(processedServers[k], processedServers[k + 1])
            ELSE KeyLeq(processedServers[k + 1], processedServers[k])

\* Sorted by country ascending, the record without a country comes first, and
\* the sort has moved it there.
C6_Witness ==
    /\ sortField = "country"
    /\ sortDirection = "asc"
    /\ Len(processedServers) = 3
    /\ ~processedServers[1].country.defined
    /\ processedServers[3].country.str # Empty
    /\ processedServers # Filtered(servers, filters)

KeysTie(a, b) == KeyLeq(a, b) /\ KeyLeq(b, a)

Position(list, r) == CHOOSE i \in 1..Len(list) : list[i] = r

\* C7: two derived records whose sort keys are equal are in the order they have
\* in the raw list, for 'asc' and for 'desc'.
C7_Stable ==
    \A j, k \in Rows :
        (j < k /\ KeysTie(processedServers[j], processedServers[k]))
        => Position(servers, processedServers[j])
             < Position(servers, processedServers[k])

\* A descending sort that has reordered the list and holds two records with
\* equal keys.
C7_Witness ==
    /\ sortDirection = "desc"
    /\ sortField = "map"
    /\ Len(processedServers) = 3
    /\ processedServers # Filtered(servers, filters)
    /\ \E j, k \in Rows :
          /\ j < k
          /\ KeysTie(processedServers[j], processedServers[k])
          /\ processedServers[j].name # processedServers[k].name

\* C8: the sort configuration starts as (players, desc); handleSort(field) on
\* the selected field keeps the field and flips the direction, and on another
\* field selects it with direction 'asc'.
C8_HandleSort ==
    /\ (sortField = "players" /\ sortDirection = "desc")
    /\ [][\A field \in SortFields :
             handleSort(field) =>
                /\ sortField' = field
                /\ sortDirection' =
                      IF field # sortField THEN "asc"
                      ELSE IF sortDirection = "asc" THEN "desc"
                      ELSE "asc"]_vars

\* Another field was selected (direction asc), then selected again (desc).
C8_Witness == sortField = "name" /\ sortDirection = "desc"

\* C9: the derived list is a function of the raw list, the filter configuration
\* and the sort configuration alone: in every state it is what the three current
\* inputs give, whatever refreshes, earlier settings or modal actions led to
\* them.
C9_DerivedFromCurrentInputs ==
    processedServers = ProcessedServers(servers, filters, sortField, sortDirection)

\* A state reached through a refresh, filter and sort changes and the server
\* modal.
C9_Witness ==
    /\ lastFetch = "ok"
    /\ selectedServer # << >>
    /\ filters.noBots
    /\ sortField = "name"
    /\ sortDirection = "desc"
    /\ Len(processedServers) = 2
    /\ Len(servers) = 3

PassingRows == {i \in 1..Len(servers) : FilterFn(servers[i], filters)}

RECURSIVE PlayersOver(_)
PlayersOver(rows) ==
    IF rows = {} THEN 0
    ELSE LET i == CHOOSE x \in rows : TRUE
         IN  servers[i].players + PlayersOver(rows \ {i})

\* C10: totalServers is the number of records of the derived (filtered) list and
\* totalPlayers the sum of their players, never those of the whole raw list.
C10_StatsOfFiltered ==
    /\ stats.totalServers = Len(processedServers)
    /\ stats.totalServers = Cardinality(PassingRows)
    /\ stats.totalPlayers = PlayersOver(PassingRows)

\* The filter hides a server with players, so the totals differ from those of
\* the raw list.
C10_Witness ==
    /\ lastFetch = "ok"
    /\ stats.totalServers = 1
    /\ Len(servers) = 3
    /\ stats.totalPlayers = 10
    /\ PlayersOver(1..Len(servers)) = 15

\* A step of the refresh engine: a fetchServers call starts or ends.
RefreshStep == inflight' # inflight

\* C11: a step that starts or ends a refresh, successful or not, leaves the
\* filters and the sort configuration as they were, and the derived list shown
\* after it is the list then held, filtered and sorted with that unchanged
\* configuration.
C11_RefreshKeepsConfig ==
    [][RefreshStep =>
          /\ filters' = filters
          /\ sortField' = sortField
          /\ sortDirection' = sortDirection
          /\ processedServers' =
                ProcessedServers(servers', filters, sortField, sortDirection)]_vars

\* A refresh has replaced the list while the user's status filter and sort by
\* name were in effect, and the derived list is the new snapshot under them.
C11_Witness ==
    /\ lastFetch = "ok"
    /\ servers = <<Crowded, Lower>>
    /\ filters.status = "full"
    /\ filters.noBots
    /\ sortField = "name"
    /\ sortDirection = "desc"
    /\ processedServers = <<Crowded>>

\* C12: a successful refresh of the mounted component puts the fetched list in
\* servers, clears error and shows the list view with the new list derived;
\* and while the component is mounted, in the error view as well, the interval
\* stays armed, so that a later tick starts the refresh that does so.
C12_SuccessClearsError ==
    /\ [](view = "active" => interval # << >>)
    /\ [][\A i \in 1..MaxInFlight, data \in Responses :
             (view = "active" /\ FetchSucceeds(i, data)) =>
                /\ servers' = data
                /\ error' = Null
                /\ ListShown'
                /\ processedServers' =
                      ProcessedServers(data, filters, sortField, sortDirection)]_vars

\* The error view is shown, the interval is armed, and a refresh started by a
\* tick is awaiting its response.
C12_Witness ==
    /\ view = "active"
    /\ error # Null
    /\ interval # << >>
    /\ inflight # << >>
    /\ isRefreshing

C14_BackgroundFailureNeverBlocks ==
    [][\A i \in 1..MaxInFlight, message \in FetchErrors :
          (ListShown /\ FetchFails(i, message)) => ListShown']_vars

\* C15: when the fetch of the initial load fails, the component is not
\* constructed: no list view is shown and no interval is armed, then and from
\* then on.
C15_InitialFailureBlocks ==
    [][/\ (view = "requested" /\ lastFetch' = "failed") =>
             (view' = "failed" /\ ~ListShown' /\ interval' = << >>)
       /\ view = "failed" => (view' = "failed" /\ ~ListShown')]_vars

\* The initial load has failed.
C15_Witness == view = "failed" /\ lastFetch = "failed" /\ servers = << >>

\* C16: once the component is unmounted no interval is armed, the component
\* stays unmounted, and no fetchServers call is started.
C16_TeardownCancelsTimer ==
    /\ [](view = "torn down" => interval = << >>)
    /\ [][view = "torn down" =>
             (view' = "torn down" /\ Len(inflight') <= Len(inflight))]_vars

\* The component was unmounted while a refresh was awaiting its response, and
\* that refresh has ended since.
C16_Witness ==
    /\ view = "torn down"
    /\ isRefreshing
    /\ inflight = << >>
    /\ lastFetch = "failed"

\* C17, as stated: at most one interval is armed, and while the component
\* stays mounted the armed interval is the one set at mount.
C17_TimerArmedOnce ==
    /\ [](Len(interval) <= 1)
    /\ [][(view = "active" /\ view' = "active") => interval' = interval]_vars

\* C18, as stated: at most one fetchServers call awaits its response.
C18_SingleFlight == Len(inflight) <= 1

C20_AppliedInStartOrder ==
    [][\A i \in 1..MaxInFlight, data \in Responses :
          (view = "active" /\ FetchSucceeds(i, data) /\ inflight[i].overtaken)
             => servers' = servers]_vars

\* C22, as stated: a step that changes the filters does not re-derive the
\* displayed list from the changed filters; the list follows later.
C22_FiltersDebounced ==
    [][filters' # filters => processedServers' = processedServers]_vars

\* C27, as stated: when the testAuthentication call of a login ends with an
\* accepted response, the cookie holds the submitted credentials; when it ends
\* otherwise, the cookie is as it was or cleared.
C27_LoginPersists ==
    [][\A i \in 1..MaxAuthCalls, outcome \in AuthOutcomes :
          (AuthEnds(i, outcome) /\ authCalls[i].login) =>
             IF outcome = "ok"
             THEN cookie' = Saved(authCalls[i].testCredentials)
             ELSE cookie' = cookie \/ cookie' = << >>]_vars

\* C28, as stated: when the testAuthentication call started by the opening of
\* the panel ends with a response that is not ok, the cookie is cleared and
\* credentials is empty.
C28_RejectedSavedCredentialsCleared ==
    [][\A i \in 1..MaxAuthCalls :
          (AuthEnds(i, "rejected") /\ ~authCalls[i].login) =>
             (cookie' = << >> /\ credentials' = EmptyCredentials)]_vars

\* C29, as stated: while the component is mounted, isRefreshing is true
\* exactly when a fetchServers call awaits its response.
C29_RefreshingIffInFlight ==
    view = "active" => (isRefreshing <=> inflight # << >>)

\* No handleLogin call awaits its response.
NoLoginPending == \A j \in 1..Len(authCalls) : ~authCalls[j].login

\* C30, as stated: Logout leaves the panel unauthenticated with empty
\* credentials and no cookie; while that is so and no login has been
\* submitted, a testAuthentication call started before the Logout changes
\* neither, however it ends; and closing the panel changes none of
\* isAuthenticated, credentials and the cookie.
C30_LogoutHolds ==
    [][/\ (showAdminPanel /\ isAuthenticated /\ ~isAuthenticated'
              /\ panelSuccess' = "Logged out successfully") =>
             (credentials' = EmptyCredentials /\ cookie' = << >>)
       /\ \A i \in 1..MaxAuthCalls, outcome \in AuthOutcomes :
             (/\ AuthEnds(i, outcome)
              /\ authCalls[i].loggedOut
              /\ NoLoginPending
              /\ ~isAuthenticated
              /\ credentials = EmptyCredentials) =>
                (~isAuthenticated' /\ credentials' = EmptyCredentials)
       /\ (showAdminPanel /\ ~showAdminPanel') =>
             UNCHANGED <<isAuthenticated, credentials, cookie>>]_vars

\* The request has been handled.
Answered == response # << >>

\* C24: a request without an Authorization header, or with an empty one, is
\* answered 401 and nothing is sent upstream, whatever its form fields; and a
\* request sent upstream carries the Authorization header as it came in.
C24_NoAuthorizationNoUpstream ==
    Answered =>
       /\ ~Given(request.authorization) =>
             (upstreamCall = << >> /\ response[1].status = 401)
       /\ upstreamCall # << >> =>
             upstreamCall[1].authorization = request.authorization[1]

\* A request to the add route with no Authorization header and no address
\* has been answered 401 with nothing sent upstream.
C24_Witness ==
    /\ Answered
    /\ request.route = "add"
    /\ request.authorization = << >>
    /\ request.form
    /\ request.address = << >>
    /\ upstreamCall = << >>
    /\ response[1] = Reply(401, "Authorization required")

\* C25, as stated: the reason of a request sent upstream by the blacklist
\* route is one of the five values of the enum, and none when the incoming
\* request has no reason.
C25_ReasonInEnum ==
    (Answered /\ request.route = "blacklist" /\ upstreamCall # << >>) =>
       /\ upstreamCall[1].reason[1] \in BLACKLIST_REASONS
       /\ request.reason = << >> => upstreamCall[1].reason = <<"none">>

\* An exception is thrown inside the try block of the blacklist or add handler:
\* the body is not form data, the upstream fetch rejects, the body of a 2xx
\* response does not parse, or the error response cannot be built.
Threw ==
    \/ ~request.form
    \/ /\ Given(request.address)
       /\ \/ upstream.rejected
          \/ Ok(upstream.status) /\ ~Parses(upstream)
          \/ /\ ~Ok(upstream.status)
             /\ upstream.status # 401
             /\ upstream.status \in NullBodyStatus

\* C26: the blacklist and add routes answer a request that has an
\* Authorization header with 500 when an exception is thrown; otherwise with
\* 400, and nothing sent upstream, when the address is missing or empty; with
\* 401 and 'Invalid credentials' on an upstream 401; with the upstream status
\* on any other upstream status outside 2xx; and with 200 and the upstream
\* body on an upstream 2xx.
C26_OneOutcome ==
    (/\ Answered
     /\ request.route \in {"blacklist", "add"}
     /\ Given(request.authorization)) =>
        IF Threw THEN response[1].status = 500
        ELSE IF ~Given(request.address)
        THEN response[1].status = 400 /\ upstreamCall = << >>
        ELSE /\ upstreamCall # << >>
             /\ IF upstream.status = 401
                THEN response[1] = Reply(401, "Invalid credentials")
                ELSE IF ~Ok(upstream.status)
                THEN response[1].status = upstream.status
                ELSE response[1] = Reply(200, UpstreamBody)

\* The blacklist route has passed on an upstream 404 with the upstream body.
C26_Witness ==
    /\ Answered
    /\ request.route = "blacklist"
    /\ upstreamCall # << >>
    /\ upstream.status = 404
    /\ response[1] = Reply(404, UpstreamBody)

\* C21: stripSpecialChars returns a string for every string, and returns that
\* string unchanged when it is given it again.
C21_StripIdempotent ==
    (argument.function = "stripSpecialChars" /\ returned # << >>) =>
       /\ returned[1] \in Seq(0..65535)
       /\ stripSpecialChars(returned[1]) = returned[1]

\* A string of three code units has lost two of them, not next to each other.
C21_Witness ==
    /\ argument.function = "stripSpecialChars"
    /\ argument.value = <<1, 126, 55357>>
    /\ returned = <<<<126>>>>

\* The hours and minutes of C23 for <<q, r>>, that is q * 10^9 + r nanoseconds.
WholeHours(nanoseconds) == nanoseconds[1] \div 3600
MinutesPastHour(nanoseconds) == (nanoseconds[1] % 3600) \div 60

\* C23: formatTime(n) is "{h}h {m}m" when h >= 1 and "{m}m" when h = 0, with
\* h and m the whole hours and the minutes past the hour of n, and m is
\* between 0 and 59.
C23_FormatTime ==
    (argument.function = "formatTime" /\ returned # << >>) =>
       LET h == WholeHours(argument.value)
           m == MinutesPastHour(argument.value)
       IN /\ m \in 0..59
          /\ returned[1] =
                IF h >= 1
                THEN Decimal(h) \o <<104, 32>> \o Decimal(m) \o <<109>>
                ELSE Decimal(m) \o <<109>>

\* 3 660 999 999 999 ns, one nanosecond short of 1 h 1 m 1 s, gives "1h 1m".
C23_Witness ==
    /\ argument.function = "formatTime"
    /\ argument.value = <<3660, 999999999>>
    /\ returned = <<<<49, 104, 32, 49, 109>>>>

=============================================================================
